---- MODULE Spec2Model ----
(***************************************************************************)
(* The Sanctuary of Nature API (src/main.py, src/schemas.py): the four     *)
(* collection endpoints, the rule-based recommendation endpoints and the   *)
(* /test diagnostic, over the document-store adapter (database.py, which   *)
(* main.py imports; its contract is taken from section 4.1 of the          *)
(* specification).                                                         *)
(*                                                                         *)
(* Encoding of Python values:                                              *)
(*   Optional[T]   None is <<>>, a present value v is <<v>>                *)
(*   str           a TLA+ string (non-ASCII characters transliterated)     *)
(*   int, float    an integer (prices and budgets in whole dollars)        *)
(*   dict / model  a function from field names to values                   *)
(*   list          a sequence                                              *)
(* Every handler is synchronous and makes at most one round trip to the    *)
(* store, so a request is one atomic step.                                 *)
(***************************************************************************)
EXTENDS Integers, Sequences, FiniteSets, TLC

VARIABLES
    env,        \* which of DATABASE_URL / DATABASE_NAME the process environment sets
    db,         \* database.db, the process-wide handle: "None" or "Database"
    dbUp,       \* whether a round trip to the external store succeeds right now
    extColls,   \* how many collections of the external database are not this API's
    store,      \* collection name -> sequence of stored documents, in store order
    created,    \* [op, id] of every create answered with status "created"
    req,        \* the last request served
    resp,       \* its response
    calls,      \* the adapter calls it made, in order
    defaultLimit \* get_documents' cap when the caller passes no limit

vars == <<env, db, dbUp, extColls, store, created, req, resp, calls, defaultLimit>>

-----------------------------------------------------------------------------
(* Bounds of the model *)

\* documents held by the store, all collections together (Spec, SpecRec)
MaxDocs == 2
\* retreats held by the store in SpecCap, one more than the largest default cap
MaxCapDocs == 101

-----------------------------------------------------------------------------
(* Python helpers *)

None == <<>>
Some(v) == <<v>>
Val(o) == o[1]

\* bool(x) of an Optional[str] / Optional[int]
TruthyStr(o) == o # None /\ Val(o) # ""
TruthyInt(o) == o # None /\ Val(o) # 0

\* s[:n] of a str or a list
Slice(s, n) == IF Len(s) <= n THEN s ELSE SubSeq(s, 1, n)

Range(s) == {s[i] : i \in DOMAIN s}

RECURSIVE SumLen(_, _)
SumLen(f, S) ==
    IF S = {} THEN 0
    ELSE LET c == CHOOSE x \in S : TRUE IN Len(f[c]) + SumLen(f, S \ {c})

-----------------------------------------------------------------------------
(* Document Store Adapter: database.py *)

Collections == {"host", "location", "retreat", "message"}

\* get_documents caps its result when the caller passes no limit; the value of
\* the cap is the adapter's own ("e.g. 100"), so the model takes it from a set
DefaultLimits == {1, 2, 100}

MsgUnavailable == "Database not available. Check DATABASE_URL and DATABASE_NAME environment variables."
MsgWrite == "WriteError: insert failed"
MsgRead == "ReadError: find failed"
\* 91 characters, longer than the 80 that /test keeps
MsgList == "ServerSelectionTimeoutError: localhost:27017: [Errno 111] Connection refused, Timeout: 30s!"

TotalDocs == SumLen(store, Collections)

\* the identifier the store generates for the next inserted document
NextId == TotalDocs + 1

\* A filter maps a field name to [op |-> "$eq" | "$lte", val |-> v].
Matches(doc, filter_dict) ==
    \A f \in DOMAIN filter_dict :
        /\ f \in DOMAIN doc
        /\ IF filter_dict[f].op = "$lte"
           THEN doc[f] <= filter_dict[f].val
           ELSE doc[f] = filter_dict[f].val

\* the store-internal "_id" rewritten into a plain "id" field
OutDoc(doc) ==
    [k \in (DOMAIN doc \ {"_id"}) \cup {"id"} |->
        IF k = "id" THEN doc["_id"] ELSE doc[k]]

\* -> [ok, id, error, store]
create_document(collection_name, data) ==
    IF db = "None"
    THEN [ok |-> FALSE, id |-> 0, error |-> MsgUnavailable, store |-> store]
    ELSE IF ~dbUp
    THEN [ok |-> FALSE, id |-> 0, error |-> MsgWrite, store |-> store]
    ELSE [ok |-> TRUE, id |-> NextId, error |-> "",
          store |-> [store EXCEPT
                        ![collection_name] = Append(@, ("_id" :> NextId) @@ data)]]

\* get_documents returning one document fewer than its limit allows
get_documents_one_short(collection_name, filter_dict, limit) ==
    IF db = "None"
    THEN [ok |-> FALSE, docs |-> <<>>, error |-> MsgUnavailable]
    ELSE IF ~dbUp
    THEN [ok |-> FALSE, docs |-> <<>>, error |-> MsgRead]
    ELSE LET found == SelectSeq(store[collection_name],
                                LAMBDA d : Matches(d, filter_dict))
             out == [i \in 1..Len(found) |-> OutDoc(found[i])]
             cap == IF limit = None THEN defaultLimit ELSE Val(limit)
         IN  [ok |-> TRUE, docs |-> Slice(out, cap - 1), error |-> ""]

\* -> [ok, docs, error]; limit is an Optional[int], None when the caller
\* passes none.  Which documents a capped result keeps is the store's choice;
\* the model keeps the first in insertion order.
get_documents(collection_name, filter_dict, limit) ==
    IF db = "None"
    THEN [ok |-> FALSE, docs |-> <<>>, error |-> MsgUnavailable]
    ELSE IF ~dbUp
    THEN [ok |-> FALSE, docs |-> <<>>, error |-> MsgRead]
    ELSE LET found == SelectSeq(store[collection_name],
                                LAMBDA d : Matches(d, filter_dict))
             out == [i \in 1..Len(found) |-> OutDoc(found[i])]
             cap == IF limit = None THEN defaultLimit ELSE Val(limit)
         IN  [ok |-> TRUE, docs |-> Slice(out, cap), error |-> ""]

\* the record of one adapter call, as a request's trace keeps it
CreateCall(collection_name, r) ==
    [fn |-> "create_document", collection |-> collection_name,
     ok |-> r.ok, error |-> r.error]
GetCall(collection_name, filter_dict, limit, r) ==
    [fn |-> "get_documents", collection |-> collection_name,
     filter |-> filter_dict, limit |-> limit, ok |-> r.ok, error |-> r.error]

-----------------------------------------------------------------------------
(* Entity schemas: src/schemas.py, and QuizInput of src/main.py *)

\* Retreat with the upper bound of duration_days left out
Retreat_no_upper_bound(data) ==
    {f \in {"duration_days"} : ~(data.duration_days >= 1)}
    \cup {f \in {"price_usd"} : ~(data.price_usd >= 0)}

\* Retreat: the fields whose constraints fail, as pydantic reports them.
\* Of a Retreat the model carries the fields a filter or a constraint reads.
Retreat(data) ==
    {f \in {"duration_days"} : ~(data.duration_days >= 1 /\ data.duration_days <= 60)}
    \cup {f \in {"price_usd"} : ~(data.price_usd >= 0)}

PreferenceFields == {"energy", "preferred_nature", "budget", "duration", "goals"}

\* pref.model_dump() of a Preference: the dict of its five fields
model_dump(pref) == [k \in PreferenceFields |-> pref[k]]

\* QuizInput declared without its budget field
QuizInput_without_budget(data) ==
    [energy |-> IF "energy" \in DOMAIN data THEN data["energy"] ELSE None,
     preferred_nature |->
        IF "preferred_nature" \in DOMAIN data THEN data["preferred_nature"] ELSE None,
     budget |-> None,
     duration |-> IF "duration" \in DOMAIN data THEN data["duration"] ELSE None,
     goals |-> IF "goals" \in DOMAIN data THEN data["goals"] ELSE None]

\* QuizInput(**data): each declared field from the keyword of that name,
\* None when there is none
QuizInput(data) ==
    [energy |-> IF "energy" \in DOMAIN data THEN data["energy"] ELSE None,
     preferred_nature |->
        IF "preferred_nature" \in DOMAIN data THEN data["preferred_nature"] ELSE None,
     budget |-> IF "budget" \in DOMAIN data THEN data["budget"] ELSE None,
     duration |-> IF "duration" \in DOMAIN data THEN data["duration"] ELSE None,
     goals |-> IF "goals" \in DOMAIN data THEN data["goals"] ELSE None]

-----------------------------------------------------------------------------
(* HTTP responses.  A handler yields [resp, calls, store]: its response,   *)
(* the adapter calls it made and the store it leaves.                      *)

Ok(body) == [status |-> 200, body |-> body]
HTTPException(status_code, detail) == [status |-> status_code, detail |-> detail]
\* FastAPI's answer to a body that fails its schema; the handler never runs
RequestValidationError(fields) == [status |-> 422, detail |-> fields]

\* str(e) of an HTTPException e: "<status_code>: <detail>"
HTTPExceptionStr(e) ==
    (IF e.status = 500 THEN "500" ELSE IF e.status = 422 THEN "422" ELSE "200")
    \o ": " \o e.detail

Created(r) == Ok([id |-> r.id, status |-> "created"])

-----------------------------------------------------------------------------
(* Collection API: src/main.py *)

read_root ==
    [resp |-> Ok([message |-> "The Sanctuary of Nature Backend is alive"]),
     calls |-> <<>>, store |-> store]

create_host(host) ==
    LET r == create_document("host", host)
    IN  [resp |-> IF r.ok THEN Created(r) ELSE HTTPException(500, r.error),
         calls |-> <<CreateCall("host", r)>>, store |-> r.store]

list_hosts ==
    LET r == get_documents("host", <<>>, None)
    IN  [resp |-> IF r.ok THEN Ok(r.docs) ELSE HTTPException(500, r.error),
         calls |-> <<GetCall("host", <<>>, None, r)>>, store |-> store]

create_location(location) ==
    LET r == create_document("location", location)
    IN  [resp |-> IF r.ok THEN Created(r) ELSE HTTPException(500, r.error),
         calls |-> <<CreateCall("location", r)>>, store |-> r.store]

list_locations ==
    LET r == get_documents("location", <<>>, None)
    IN  [resp |-> IF r.ok THEN Ok(r.docs) ELSE HTTPException(500, r.error),
         calls |-> <<GetCall("location", <<>>, None, r)>>, store |-> store]

\* create_retreat writing into the location collection
create_retreat_into_location(retreat) ==
    LET r == create_document("location", retreat)
    IN  [resp |-> IF r.ok THEN Created(r) ELSE HTTPException(500, r.error),
         calls |-> <<CreateCall("location", r)>>, store |-> r.store]

create_retreat(retreat) ==
    LET r == create_document("retreat", retreat)
    IN  [resp |-> IF r.ok THEN Created(r) ELSE HTTPException(500, r.error),
         calls |-> <<CreateCall("retreat", r)>>, store |-> r.store]

\* POST /api/retreats: the body is validated as a Retreat before the handler
post_retreats(body) ==
    IF Retreat(body) = {}
    THEN create_retreat(body)
    ELSE [resp |-> RequestValidationError(Retreat(body)),
          calls |-> <<>>, store |-> store]

\* filter_q of list_retreats
list_retreats_filter(nature_type) ==
    IF TruthyStr(nature_type)
    THEN "nature_type" :> [op |-> "$eq", val |-> Val(nature_type)]
    ELSE <<>>

list_retreats(nature_type) ==
    LET filter_q == list_retreats_filter(nature_type)
        r == get_documents("retreat", filter_q, None)
    IN  [resp |-> IF r.ok THEN Ok(r.docs) ELSE HTTPException(500, r.error),
         calls |-> <<GetCall("retreat", filter_q, None, r)>>,
         store |-> store]

\* create_message writing into the host collection
create_message_into_host(message) ==
    LET r == create_document("host", message)
    IN  [resp |-> IF r.ok THEN Created(r) ELSE HTTPException(500, r.error),
         calls |-> <<CreateCall("host", r)>>, store |-> r.store]

create_message(message) ==
    LET r == create_document("message", message)
    IN  [resp |-> IF r.ok THEN Created(r) ELSE HTTPException(500, r.error),
         calls |-> <<CreateCall("message", r)>>, store |-> r.store]

\* filter_q of list_messages; a stored topic is an Optional[str]
list_messages_filter(topic) ==
    IF TruthyStr(topic)
    THEN "topic" :> [op |-> "$eq", val |-> topic]
    ELSE <<>>

list_messages(topic) ==
    LET filter_q == list_messages_filter(topic)
        r == get_documents("message", filter_q, None)
    IN  [resp |-> IF r.ok THEN Ok(r.docs) ELSE HTTPException(500, r.error),
         calls |-> <<GetCall("message", filter_q, None, r)>>,
         store |-> store]

-----------------------------------------------------------------------------
(* Recommendation engine: src/main.py *)

\* limit of recommend's query
RecommendLimit == 8

\* recommend_query with the budget tested for truth, so that 0 counts as absent
recommend_query_budget_truthy(pref) ==
    (IF TruthyStr(pref.preferred_nature)
     THEN "nature_type" :> [op |-> "$eq", val |-> Val(pref.preferred_nature)]
     ELSE <<>>)
    @@ (IF TruthyInt(pref.duration)
        THEN "duration_days" :> [op |-> "$lte", val |-> Val(pref.duration)]
        ELSE <<>>)
    @@ (IF TruthyInt(pref.budget)
        THEN "price_usd" :> [op |-> "$lte", val |-> Val(pref.budget)]
        ELSE <<>>)

\* q of recommend
recommend_query(pref) ==
    (IF TruthyStr(pref.preferred_nature)
     THEN "nature_type" :> [op |-> "$eq", val |-> Val(pref.preferred_nature)]
     ELSE <<>>)
    @@ (IF TruthyInt(pref.duration)
        THEN "duration_days" :> [op |-> "$lte", val |-> Val(pref.duration)]
        ELSE <<>>)
    @@ (IF pref.budget # None
        THEN "price_usd" :> [op |-> "$lte", val |-> Val(pref.budget)]
        ELSE <<>>)

\* spirit_note with the restorative entry misspelt
spirit_note_misspelt(energy) ==
    IF energy = Some("calm")
    THEN "The waters are still today; gentle breath and soft horizons call you."
    ELSE IF energy = Some("transformative")
    THEN "Winds of change swirl around you; trust the metamorphosis."
    ELSE IF energy = Some("adventurous")
    THEN "Peaks and tides await; your courage is the compass."
    ELSE IF energy = Some("restorativ")
    THEN "Let the earth hold you; sleep, nourish, and renew."
    ELSE "Nature listens. Share more, and I'll guide you further."

\* spirit_note of recommend (the fallback's typographic apostrophe is written ')
spirit_note(energy) ==
    IF energy = Some("calm")
    THEN "The waters are still today; gentle breath and soft horizons call you."
    ELSE IF energy = Some("transformative")
    THEN "Winds of change swirl around you; trust the metamorphosis."
    ELSE IF energy = Some("adventurous")
    THEN "Peaks and tides await; your courage is the compass."
    ELSE IF energy = Some("restorative")
    THEN "Let the earth hold you; sleep, nourish, and renew."
    ELSE "Nature listens. Share more, and I'll guide you further."

recommend(pref) ==
    LET q == recommend_query(pref)
        r == get_documents("retreat", q, Some(RecommendLimit))
    IN  [resp |-> IF r.ok
                  THEN Ok([matches |-> r.docs,
                           spirit_message |-> spirit_note(pref.energy)])
                  ELSE HTTPException(500, r.error),
         calls |-> <<GetCall("retreat", q, Some(RecommendLimit), r)>>,
         store |-> store]

\* recommend raises its HTTPException inside quiz's own try, whose handler
\* wraps it again with detail = str(e)
quiz(pref) ==
    LET o == recommend(QuizInput(model_dump(pref)))
    IN  IF o.resp.status = 200
        THEN o
        ELSE [o EXCEPT !.resp = HTTPException(500, HTTPExceptionStr(o.resp))]

-----------------------------------------------------------------------------
(* GET /test: src/main.py *)

\* names of the external database's other collections
ExtNames ==
    <<"users", "sessions", "logs", "jobs", "events", "audit",
      "cache", "files", "tags", "notes", "tokens">>

AppNames == <<"host", "location", "retreat", "message">>

\* db.list_collection_names(): a collection exists once it holds a document
list_collection_names ==
    IF ~dbUp
    THEN [ok |-> FALSE, names |-> <<>>, error |-> MsgList]
    ELSE [ok |-> TRUE,
          names |-> SelectSeq(AppNames, LAMBDA c : Len(store[c]) > 0)
                    \o SubSeq(ExtNames, 1, extColls),
          error |-> ""]

\* the collection names reported whole
test_collections_uncut(collections) == collections

\* collections[:10]
test_collections(collections) == Slice(collections, 10)

\* "[ok]", "[x]", "[!]" stand for the check-mark, cross and warning signs
test_database ==
    LET response == [backend |-> "[ok] Running",
                     database |-> "[x] Not Available",
                     database_url |-> None,
                     database_name |-> None,
                     connection_status |-> "Not Connected",
                     collections |-> <<>>]
        c == list_collection_names
        connected == [response EXCEPT !.connection_status = "Connected"]
        tried ==
            IF db # "None"
            THEN IF c.ok
                 THEN [connected EXCEPT !.collections = test_collections(c.names),
                                        !.database = "[ok] Connected & Working"]
                 ELSE [connected EXCEPT
                          !.database = "[!]  Connected but Error: "
                                       \o Slice(c.error, 80)]
            ELSE [response EXCEPT !.database = "[!]  Available but not initialized"]
    IN  [resp |-> Ok([tried EXCEPT
                        !.database_url =
                            IF env.DATABASE_URL THEN "[ok] Set" ELSE "[x] Not Set",
                        !.database_name =
                            IF env.DATABASE_NAME THEN "[ok] Set" ELSE "[x] Not Set"]),
         calls |-> IF db # "None"
                   THEN <<[fn |-> "list_collection_names", ok |-> c.ok,
                           error |-> c.error]>>
                   ELSE <<>>,
         store |-> store]

-----------------------------------------------------------------------------
(* Requests *)

Hosts == {[name |-> "Asha"]}
Locations == {[title |-> "Oasis", region |-> "Sinai", nature_type |-> "desert"]}
Messages ==
    {[author |-> "kai", content |-> "hello", topic |-> t] :
        t \in {None, Some("general")}}
Topics == {None, Some(""), Some("general"), Some("General")}

ValidRetreats ==
    {[nature_type |-> "forest", duration_days |-> 1, price_usd |-> 0],
     [nature_type |-> "forest", duration_days |-> 60, price_usd |-> 50],
     [nature_type |-> "Forest", duration_days |-> 2, price_usd |-> 20]}
InvalidRetreats ==
    {[nature_type |-> "forest", duration_days |-> 0, price_usd |-> 0],
     [nature_type |-> "forest", duration_days |-> 61, price_usd |-> 0],
     [nature_type |-> "forest", duration_days |-> 1, price_usd |-> -1]}
Retreats == ValidRetreats \cup InvalidRetreats
NatureTypes == {None, Some(""), Some("forest"), Some("Forest"), Some("for")}

Energies ==
    {None, Some("calm"), Some("transformative"), Some("adventurous"),
     Some("restorative"), Some("Calm")}

Pref(e, n, b, d, g) ==
    [energy |-> e, preferred_nature |-> n, budget |-> b, duration |-> d, goals |-> g]

\* the preferences of SpecRec: every energy, and every combination of the
\* filter fields
Prefs ==
    {Pref(e, None, b, None, g) :
        e \in Energies, b \in {None, Some(20)}, g \in {None, Some("rest")}}
    \cup
    {Pref(e, n, b, d, g) :
        e \in {None, Some("calm")}, n \in {None, Some("forest")},
        b \in {None, Some(0), Some(20)}, d \in {None, Some(0), Some(2)},
        g \in {None, Some("rest")}}

\* the preferences of Spec
FewPrefs ==
    {Pref(None, None, None, None, None),
     Pref(Some("calm"), Some("forest"), Some(0), Some(0), Some("rest")),
     Pref(Some("bold"), None, Some(20), Some(2), None)}

-----------------------------------------------------------------------------
(* Actions: one per endpoint, plus the external store going down and up *)

IsCreate(op) ==
    op \in {"create_host", "create_location", "create_retreat", "create_message"}

\* request r served with outcome o
Serve(r, o) ==
    /\ req' = r
    /\ resp' = o.resp
    /\ calls' = o.calls
    /\ store' = o.store
    /\ created' = IF IsCreate(r.op) /\ o.resp.status = 200
                  THEN created \cup {[op |-> r.op, id |-> o.resp.body.id]}
                  ELSE created
    /\ UNCHANGED <<env, db, dbUp, extColls, defaultLimit>>

ReadRoot == Serve([op |-> "read_root", arg |-> None], read_root)
TestDatabase == Serve([op |-> "test_database", arg |-> None], test_database)
CreateHost(host) == Serve([op |-> "create_host", arg |-> host], create_host(host))
ListHosts == Serve([op |-> "list_hosts", arg |-> None], list_hosts)
CreateLocation(location) ==
    Serve([op |-> "create_location", arg |-> location], create_location(location))
ListLocations == Serve([op |-> "list_locations", arg |-> None], list_locations)
CreateRetreat(body) ==
    Serve([op |-> "create_retreat", arg |-> body], post_retreats(body))
ListRetreats(nature_type) ==
    Serve([op |-> "list_retreats", arg |-> nature_type], list_retreats(nature_type))
CreateMessage(message) ==
    Serve([op |-> "create_message", arg |-> message], create_message(message))
ListMessages(topic) ==
    Serve([op |-> "list_messages", arg |-> topic], list_messages(topic))
Recommend(pref) == Serve([op |-> "recommend", arg |-> pref], recommend(pref))
Quiz(pref) == Serve([op |-> "quiz", arg |-> pref], quiz(pref))

NoRequest == [op |-> "none", arg |-> None]
NoResponse == [status |-> 0]

\* the external store becomes unreachable, or reachable again; no request is
\* being served
DbFlap ==
    /\ db # "None"
    /\ dbUp' = ~dbUp
    /\ req' = NoRequest
    /\ resp' = NoResponse
    /\ calls' = <<>>
    /\ UNCHANGED <<env, db, extColls, store, created, defaultLimit>>

-----------------------------------------------------------------------------
(* Specifications *)

\* database.py connects at import when both variables are set; the store
\* starts empty
Init ==
    /\ env \in [{"DATABASE_URL", "DATABASE_NAME"} -> BOOLEAN]
    /\ db = IF env.DATABASE_URL /\ env.DATABASE_NAME THEN "Database" ELSE "None"
    /\ dbUp \in (IF db = "None" THEN {FALSE} ELSE BOOLEAN)
    /\ extColls \in (IF db = "None" THEN {0} ELSE {0, 9, Len(ExtNames)})
    /\ defaultLimit \in DefaultLimits
    /\ store = [c \in Collections |-> <<>>]
    /\ created = {}
    /\ req = NoRequest
    /\ resp = NoResponse
    /\ calls = <<>>

Room == TotalDocs < MaxDocs

\* every endpoint
Next ==
    \/ ReadRoot
    \/ TestDatabase
    \/ Room /\ \E host \in Hosts : CreateHost(host)
    \/ ListHosts
    \/ Room /\ \E location \in Locations : CreateLocation(location)
    \/ ListLocations
    \/ Room /\ \E body \in Retreats : CreateRetreat(body)
    \/ \E nature_type \in NatureTypes : ListRetreats(nature_type)
    \/ Room /\ \E message \in Messages : CreateMessage(message)
    \/ \E topic \in Topics : ListMessages(topic)
    \/ \E pref \in FewPrefs : Recommend(pref)
    \/ \E pref \in FewPrefs : Quiz(pref)
    \/ DbFlap

Spec == Init /\ [][Next]_vars

\* the retreat collection and the recommendation endpoints, every preference
NextRec ==
    \/ Room /\ \E body \in Retreats : CreateRetreat(body)
    \/ \E pref \in Prefs : Recommend(pref)
    \/ \E pref \in Prefs : Quiz(pref)
    \/ DbFlap

\* the external database holds no other collection
InitOwn == Init /\ extColls = 0

SpecRec == InitOwn /\ [][NextRec]_vars

\* the retreat collection filled past the default cap
CapRetreat == [nature_type |-> "forest", duration_days |-> 1, price_usd |-> 0]

NextCap ==
    \/ TotalDocs < MaxCapDocs /\ CreateRetreat(CapRetreat)
    \/ ListRetreats(None)
    \/ DbFlap

SpecCap == InitOwn /\ [][NextCap]_vars

-----------------------------------------------------------------------------
(* Properties *)

IsRecommend == req.op \in {"recommend", "quiz"}

\* the filter of the one adapter call the last request made
QueryFilter == calls[1].filter

Matched == resp.body.matches

InRange(r) == r.duration_days \in 1..60 /\ r.price_usd >= 0

\* ids of the retreats whose creation was answered "created"
CreatedRetreats == {c.id : c \in {x \in created : x.op = "create_retreat"}}

CollectionOf(op) ==
    CASE op = "create_host" -> "host"
      [] op = "create_location" -> "location"
      [] op = "create_retreat" -> "retreat"
      [] op = "create_message" -> "message"

\* C1: a recommend (or quiz) whose preference carries a budget, zero included,
\* queries the retreats with price_usd at most the budget, and every match
\* costs at most the budget; only an absent budget leaves the price free.
C1_BudgetConstrainsPrice ==
    IsRecommend =>
        /\ Len(calls) = 1
        /\ calls[1].fn = "get_documents"
        /\ calls[1].collection = "retreat"
        /\ req.arg.budget # None =>
            /\ "price_usd" \in DOMAIN QueryFilter
            /\ QueryFilter["price_usd"] = [op |-> "$lte", val |-> Val(req.arg.budget)]
            /\ resp.status = 200 =>
                \A i \in DOMAIN Matched : Matched[i].price_usd <= Val(req.arg.budget)
        /\ req.arg.budget = None => "price_usd" \notin DOMAIN QueryFilter

\* a budget of zero was given, a free retreat matched and a paid one did not
C1_Witness ==
    /\ req.op = "recommend"
    /\ req.arg.budget = Some(0)
    /\ resp.status = 200
    /\ Len(Matched) >= 1
    /\ \E i \in DOMAIN store["retreat"] : store["retreat"][i].price_usd > 0

\* C2: recommend constrains duration_days to at most the duration exactly when
\* the duration field is present, zero included, and then every match lasts at
\* most that long.
C2_DurationConstrainedIffPresent ==
    IsRecommend =>
        /\ ("duration_days" \in DOMAIN QueryFilter) <=> (req.arg.duration # None)
        /\ (req.arg.duration # None /\ resp.status = 200) =>
                \A i \in DOMAIN Matched :
                    Matched[i].duration_days <= Val(req.arg.duration)

\* C3: a create-retreat request with duration_days outside 1..60 or a negative
\* price_usd is answered by a validation error, makes no adapter call and
\* leaves the store as it was; no stored retreat is out of range.
C3_InvalidRetreatNeverStored ==
    [][/\ (req'.op = "create_retreat" /\ ~InRange(req'.arg)) =>
            /\ resp'.status = 422
            /\ calls' = <<>>
            /\ store' = store
            /\ created' = created
       /\ \A i \in DOMAIN store'["retreat"] : InRange(store'["retreat"][i])]_vars

\* a 61-day retreat was rejected while the store was available
C3_Witness ==
    /\ req.op = "create_retreat"
    /\ req.arg.duration_days = 61
    /\ resp.status = 422
    /\ db = "Database"
    /\ dbUp

\* the unfiltered list of retreats holds every retreat created so far
ListedAll ==
    \A id \in CreatedRetreats : \E i \in DOMAIN resp.body : resp.body[i].id = id

UnfilteredListOk ==
    /\ req.op = "list_retreats"
    /\ req.arg = None
    /\ resp.status = 200

C5_OnlyExactNatureType ==
    (req.op = "list_retreats" /\ req.arg # None /\ resp.status = 200) =>
        \A i \in DOMAIN resp.body : resp.body[i].nature_type = Val(req.arg)

\* C6: quiz answers as recommend does on the same five fields in the same
\* state: the same status, and on success the same matches and
\* spirit_message; the goals field changes no answer of either.
C6_QuizIsRecommend ==
    /\ req.op = "quiz" =>
        LET rec == recommend(Pref(req.arg.energy, req.arg.preferred_nature,
                                  req.arg.budget, req.arg.duration,
                                  req.arg.goals)).resp
        IN  /\ resp.status = rec.status
            /\ rec.status = 200 =>
                /\ resp.body.matches = rec.body.matches
                /\ resp.body.spirit_message = rec.body.spirit_message
                /\ resp = rec
            /\ \A g \in {None, Some("rest"), Some("heal")} :
                    quiz([req.arg EXCEPT !.goals = g]).resp = resp
    /\ req.op = "recommend" =>
        \A g \in {None, Some("rest"), Some("heal")} :
            recommend([req.arg EXCEPT !.goals = g]).resp = resp

\* a quiz with goals and a budget succeeded with a match
C6_Witness ==
    /\ req.op = "quiz"
    /\ req.arg.goals # None
    /\ req.arg.budget # None
    /\ resp.status = 200
    /\ Len(Matched) >= 1

\* C7: the spirit_message is the table entry of an energy that is exactly
\* calm, transformative, adventurous or restorative, and the one fallback
\* message for every other energy, whatever the other fields and the store.
C7_SpiritMessageByEnergy ==
    (IsRecommend /\ resp.status = 200) =>
        LET energy == req.arg.energy
            msg == resp.body.spirit_message
        IN  /\ energy = Some("calm") =>
                msg = "The waters are still today; gentle breath and soft horizons call you."
            /\ energy = Some("transformative") =>
                msg = "Winds of change swirl around you; trust the metamorphosis."
            /\ energy = Some("adventurous") =>
                msg = "Peaks and tides await; your courage is the compass."
            /\ energy = Some("restorative") =>
                msg = "Let the earth hold you; sleep, nourish, and renew."
            /\ energy \notin {Some("calm"), Some("transformative"),
                              Some("adventurous"), Some("restorative")} =>
                msg = "Nature listens. Share more, and I'll guide you further."

\* a restorative preference with a filter was answered over a non-empty store
C7_Witness ==
    /\ req.op = "recommend"
    /\ req.arg.energy = Some("restorative")
    /\ req.arg.budget # None
    /\ resp.status = 200
    /\ resp.body.spirit_message = "Let the earth hold you; sleep, nourish, and renew."
    /\ Len(store["retreat"]) >= 1

\* C8: /test answers 200 with the six diagnostic keys in every database
\* state, and reports at most 10 collection names.
C8_TestNeverRaises ==
    req.op = "test_database" =>
        /\ resp.status = 200
        /\ DOMAIN resp.body = {"backend", "database", "database_url",
                               "database_name", "connection_status", "collections"}
        /\ Len(resp.body.collections) <= 10
        /\ db = "None" => resp.body.collections = <<>>
        /\ (db # "None" /\ ~dbUp) => resp.body.collections = <<>>

\* the database listed more than 10 collections and /test reported 10
C8_Witness ==
    /\ req.op = "test_database"
    /\ calls # <<>>
    /\ calls[1].ok
    /\ Len(list_collection_names.names) > 10
    /\ Len(resp.body.collections) = 10

StorageOps ==
    {"create_host", "list_hosts", "create_location", "list_locations",
     "create_retreat", "list_retreats", "create_message", "list_messages",
     "recommend", "quiz"}

\* C9: a create, list, recommend or quiz request whose adapter call fails ends
\* with status 500 and the failure's message as detail, after exactly one
\* adapter call, with the store unchanged.
C9_FailureSurfacesMessage ==
    [][(req'.op \in StorageOps /\ calls' # <<>> /\ ~calls'[1].ok) =>
            /\ resp'.status = 500
            /\ resp'.detail = calls'[1].error
            /\ Len(calls') = 1
            /\ store' = store]_vars

\* C10: every step leaves each collection as it was, except that a create
\* endpoint answering "created" appends exactly one document, the request's
\* body under a fresh id, to its own collection.
C10_AppendOnly ==
    [][/\ \A c \in Collections :
            \/ store'[c] = store[c]
            \/ /\ IsCreate(req'.op)
               /\ resp'.status = 200
               /\ c = CollectionOf(req'.op)
               /\ Len(store'[c]) = Len(store[c]) + 1
               /\ SubSeq(store'[c], 1, Len(store[c])) = store[c]
               /\ OutDoc(store'[c][Len(store'[c])])
                    = ("id" :> resp'.body.id) @@ req'.arg
       /\ (IsCreate(req'.op) /\ resp'.status = 200) =>
            store'[CollectionOf(req'.op)] # store[CollectionOf(req'.op)]
       /\ ~IsCreate(req'.op) => store' = store]_vars

\* a message was created beside an earlier retreat
C10_Witness ==
    /\ req.op = "create_message"
    /\ resp.status = 200
    /\ Len(store["message"]) = 1
    /\ Len(store["retreat"]) = 1

====
